---- MODULE Spec2Model ----
(***************************************************************************)
(* State-machine model of src/src/classes/BostonModel.py: the tile catalog *)
(* (BostonModel.__init__ / _enumerate_scenes), the ASCII conversion        *)
(* utility, the dataset simplifier and the scene assembler.                *)
(*                                                                         *)
(* Python strings that are used as file names are sequences of "pieces":   *)
(* a piece either starts with a dot and holds no further dot (".geojson")  *)
(* or holds no dot at all ("t1", "_tileinfo").  The vocabulary is chosen   *)
(* so that the substring "tileinfo" never straddles two pieces.            *)
(* A path is a sequence of names; an absolute path starts with <<"/">>.    *)
(* Coordinates are integers (exact arithmetic).                            *)
(***************************************************************************)
EXTENDS Integers, Sequences, FiniteSets, TLC

VARIABLES fs, obj, attrs, dataset_dir, mesh_dir, out_dataset_dir,
          tiles_dict, tile_names, n_tiles, ret

vars == <<fs, obj, attrs, dataset_dir, mesh_dir, out_dataset_dir,
          tiles_dict, tile_names, n_tiles, ret>>

----------------------------------------------------------------------------
(* Bounds *)
MaxFeatures == 2
MaxAscii == 1

----------------------------------------------------------------------------
(* pathlib *)
DotPieces == {".geojson", ".xml", ".ply", ".txt"}
MarkerPieces == {"_tileinfo"}

LastDot(name) ==
  LET I == {i \in 1..Len(name) : name[i] \in DotPieces}
  IN IF I = {} THEN 0 ELSE CHOOSE i \in I : \A j \in I : j <= i

\* PurePath.suffix: the part from the last dot on, unless the dot leads the name
suffix(name) ==
  IF LastDot(name) > 1 THEN SubSeq(name, LastDot(name), Len(name)) ELSE <<>>

stem(name) ==
  IF LastDot(name) > 1 THEN SubSeq(name, 1, LastDot(name) - 1) ELSE name

\* "tileinfo" in <str>
HasMarker(name) == \E i \in 1..Len(name) : name[i] \in MarkerPieces

PathName(p) == p[Len(p)]
joinpath(p, name) == Append(p, name)
with_name(p, name) == Append(SubSeq(p, 1, Len(p) - 1), name)
with_suffix(p, sfx) == with_name(p, stem(PathName(p)) \o sfx)

cwd == << <<"/">>, <<"work">> >>
Absolute(p) == IF Len(p) > 0 /\ p[1] = <<"/">> THEN p ELSE cwd \o p

\* Path.resolve(): absolute, with a symbolic link replaced by its target
resolve(f, p) ==
  LET a == Absolute(p)
  IN IF a \in DOMAIN f /\ f[a].kind = "link" THEN f[a].target ELSE a

exists(f, p) == resolve(f, p) \in DOMAIN f
is_file(f, p) == exists(f, p) /\ f[resolve(f, p)].kind = "file"
is_dir(f, p) == exists(f, p) /\ f[resolve(f, p)].kind = "dir"

\* Path.iterdir(): the immediate entries, spelled as children of p
iterdir(f, p) ==
  LET d == resolve(f, p)
  IN { joinpath(p, PathName(q)) :
         q \in { r \in DOMAIN f : /\ Len(r) = Len(d) + 1
                                  /\ SubSeq(r, 1, Len(d)) = d } }

PyPath(p) == [type |-> "Path", parts |-> p]
PyStr(p) == [type |-> "str", parts |-> p]

----------------------------------------------------------------------------
(* File system *)
NoData == [text |-> "", tri |-> 0, enc |-> ""]
DirNode == [kind |-> "dir", data |-> NoData, target |-> <<>>]
FileNode(d) == [kind |-> "file", data |-> d, target |-> <<>>]
LinkNode(t) == [kind |-> "link", data |-> NoData, target |-> t]
Text(t) == [text |-> t, tri |-> 0, enc |-> "text"]
Mesh(n) == [text |-> "", tri |-> n, enc |-> "binary"]

write(f, p, d) ==
  LET a == resolve(f, p)
  IN [q \in DOMAIN f \cup {a} |-> IF q = a THEN FileNode(d) ELSE f[q]]

RECURSIVE mkdir(_, _)
\* Path.mkdir(parents=True, exist_ok=True)
mkdir(f, a) ==
  IF Len(a) <= 1 \/ a \in DOMAIN f THEN f
  ELSE LET g == mkdir(f, SubSeq(a, 1, Len(a) - 1))
       IN [q \in DOMAIN g \cup {a} |-> IF q = a THEN DirNode ELSE g[q]]

DatasetPath == << <<"dataset">> >>
MeshesAbs == cwd \o << <<"dataset">>, <<"meshes">> >>
Elsewhere == << <<"/">>, <<"elsewhere">> >>

BaseFs ==
  (cwd :> DirNode)
  @@ (cwd \o DatasetPath :> DirNode)
  @@ (MeshesAbs :> DirNode)
  @@ (joinpath(MeshesAbs, <<"rectangle", ".ply">>) :> FileNode(Mesh(2)))
  @@ (joinpath(MeshesAbs, <<"m1", ".ply">>) :> FileNode(Mesh(10)))
  @@ (joinpath(MeshesAbs, <<"m2", ".ply">>) :> FileNode(Mesh(20)))
  @@ (joinpath(MeshesAbs, <<"ground", ".ply">>) :> FileNode(Mesh(4)))
  @@ (joinpath(cwd, <<"afile">>) :> FileNode(Text("x")))
  @@ (Elsewhere :> DirNode)
  @@ (joinpath(Elsewhere, <<"x", ".geojson">>) :> FileNode(Text("geo:x")))

\* entries a dataset directory may hold besides meshes/
DatasetEntries ==
  (<<"t1", ".geojson">> :> FileNode(Text("geo:t1")))
  @@ (<<"t1", ".xml">> :> FileNode(Text("xml:t1")))
  @@ (<<"t1", "_tileinfo", ".geojson">> :> FileNode(Text("info:t1")))
  @@ (<<"t2", ".geojson">> :> FileNode(Text("geo:t2")))
  @@ (<<"sub", ".geojson">> :> DirNode)
  @@ (<<"t3", ".geojson">> :>
        LinkNode(joinpath(Elsewhere, <<"x", ".geojson">>)))
  @@ (<<".geojson">> :> FileNode(Text("hidden")))

FsWith(names) ==
  LET ps == { joinpath(cwd \o DatasetPath, n) : n \in names }
  IN [q \in DOMAIN BaseFs \cup ps |->
        IF q \in ps THEN DatasetEntries[PathName(q)] ELSE BaseFs[q]]

----------------------------------------------------------------------------
(* Result of the last call *)
NoMsg == [dir |-> <<>>, names |-> <<>>, key |-> <<>>]
NoScene == [k \in {} |-> 0]
Ret(op, err, msg, eff) ==
  [op |-> op, error |-> err, msg |-> msg, effects |-> eff,
   args |-> <<>>, pre |-> {}, scene |-> NoScene, n_tri |-> 0]

----------------------------------------------------------------------------
(* Tile catalog *)
\* variant: the metadata marker is not tested
Qualifies_m(f, scene_file_path) ==
  /\ is_file(f, scene_file_path)
  /\ suffix(PathName(scene_file_path)) = <<".geojson">>

Qualifies(f, scene_file_path) ==
  /\ is_file(f, scene_file_path)
  /\ suffix(PathName(scene_file_path)) = <<".geojson">>
  /\ ~ HasMarker(stem(PathName(scene_file_path)))

Descriptor(f, scene_file_path) ==
  LET scene_name == stem(PathName(scene_file_path))
  IN [tileinfo_path |-> with_name(resolve(f, scene_file_path),
                                  scene_name \o <<"_tileinfo", ".geojson">>),
      geo_scene_path |-> scene_file_path,
      mi_scene_path |-> with_suffix(resolve(f, scene_file_path), <<".xml">>)]

QualifyingEntries(f, dir) == { e \in iterdir(f, dir) : Qualifies(f, e) }

_enumerate_scenes(f, dir) ==
  LET E == QualifyingEntries(f, dir)
  IN [k \in { stem(PathName(e)) : e \in E } |->
        Descriptor(f, CHOOSE e \in E : stem(PathName(e)) = k)]

n_scenes(scenes_dict) == Cardinality(DOMAIN scenes_dict)

\* variant: the name list is taken before the mapping is filled
KeyLists_m(scenes_dict) == { <<>> }

\* list(dict.keys()): the keys in insertion order, which is iterdir's order
KeyLists(scenes_dict) ==
  { s \in [1..Cardinality(DOMAIN scenes_dict) -> DOMAIN scenes_dict] :
      \A i, j \in DOMAIN s : i # j => s[i] # s[j] }

DirArgs ==
  { PyPath(DatasetPath), PyStr(DatasetPath),
    PyPath(<< <<"missing">> >>), PyStr(<< <<"missing">> >>),
    PyPath(<< <<"afile">> >>), PyStr(<< <<"afile">> >>) }

AllAttrs == {"dataset_dir", "mesh_dir", "n_tiles", "tiles_dict", "tile_names",
             "origin_epsg4326", "origin_epsg2249", "flat"}

InitRet(err, arg, f) ==
  [Ret("init", err, NoMsg, <<>>) EXCEPT !.args = <<arg>>, !.pre = {f}]

Construct ==
  /\ obj = "none"
  /\ UNCHANGED out_dataset_dir
  /\ \E arg \in DirArgs :
       /\ dataset_dir' = PyPath(arg.parts)
       /\ fs' = fs
       /\ IF arg.type # "Path"
          THEN \* line 25: str has no joinpath
               /\ obj' = "failed"
               /\ attrs' = {"dataset_dir"}
               /\ ret' = InitRet("AttributeError", arg, fs)
               /\ UNCHANGED <<mesh_dir, tiles_dict, tile_names, n_tiles>>
          ELSE /\ mesh_dir' = PyPath(joinpath(arg.parts, <<"meshes">>))
               /\ IF ~ is_dir(fs, arg.parts)
                  THEN /\ obj' = "failed"
                       /\ attrs' = {"dataset_dir", "mesh_dir"}
                       /\ ret' = InitRet(IF exists(fs, arg.parts)
                                          THEN "NotADirectoryError"
                                          ELSE "FileNotFoundError", arg, fs)
                       /\ UNCHANGED <<tiles_dict, tile_names, n_tiles>>
                  ELSE /\ obj' = "ok"
                       /\ attrs' = AllAttrs
                       /\ tiles_dict' = _enumerate_scenes(fs, arg.parts)
                       /\ n_tiles' = n_scenes(tiles_dict')
                       /\ tile_names' \in KeyLists(tiles_dict')
                       /\ ret' = InitRet("none", arg, fs)

----------------------------------------------------------------------------
(* ASCII mesh conversion *)
AsciiCount(name) == Cardinality({ i \in 1..Len(name) : name[i] = "_ascii" })

\* o3d.io.read_triangle_mesh: an unreadable path yields the empty mesh
read_triangle_mesh(f, p) == IF is_file(f, p) THEN f[resolve(f, p)].data ELSE Mesh(0)

RECURSIVE WriteAscii(_, _, _, _)
\* lines 70-74, over the entries listed when the loop starts
WriteAscii(f, f0, todo, out) ==
  IF todo = {} THEN f
  ELSE LET model_in_path == CHOOSE p \in todo : TRUE
           model_in == read_triangle_mesh(f0, model_in_path)
           model_out_path ==
             joinpath(out, stem(PathName(model_in_path)) \o <<"_ascii", ".ply">>)
       IN WriteAscii(write(f, model_out_path, [model_in EXCEPT !.enc = "ascii"]),
                     f0, todo \ {model_in_path}, out)

None == [type |-> "None", parts |-> <<>>]
AsciiDirArgs ==
  { None, PyPath(<< <<"ascii">> >>), PyStr(<< <<"ascii">> >>) }

convert_to_ascii ==
  /\ obj = "ok"
  /\ \A p \in iterdir(fs, mesh_dir.parts) : AsciiCount(PathName(p)) < MaxAscii
  /\ \E arg \in AsciiDirArgs :
       LET out_mesh_dir == IF arg.type = "None" THEN mesh_dir ELSE arg
           made == IF is_dir(fs, out_mesh_dir.parts) THEN fs
                   ELSE mkdir(fs, Absolute(out_mesh_dir.parts))
           eff == IF is_dir(fs, out_mesh_dir.parts) THEN <<>>
                  ELSE << [act |-> "mkdir", path |-> out_mesh_dir.parts] >>
       IN IF out_mesh_dir.type = "str"
          THEN \* line 67: str has no is_dir
               /\ fs' = fs
               /\ ret' = Ret("convert_to_ascii", "AttributeError", NoMsg, <<>>)
          ELSE /\ fs' = WriteAscii(made, made, iterdir(made, mesh_dir.parts),
                                   out_mesh_dir.parts)
               /\ ret' = Ret("convert_to_ascii", "none", NoMsg,
                             eff \o << [act |-> "write_all",
                                        path |-> out_mesh_dir.parts] >>)
  /\ UNCHANGED <<obj, attrs, dataset_dir, mesh_dir, out_dataset_dir,
                 tiles_dict, tile_names, n_tiles>>

----------------------------------------------------------------------------
(* Dataset simplifier *)
InList(x, list) == \E i \in 1..Len(list) : list[i] = x

\* variant: the membership test is dropped
UnknownTile_m(scene_in_name, names) == FALSE

\* line 84
UnknownTile(scene_in_name, names) == ~ InList(scene_in_name, names)

\* variant: the comparison is inverted
SameDir_m(src_dir, out_dir) == src_dir # out_dir

\* line 90: Path.__eq__; a Path never equals a str
SameDir(src_dir, out_dir) == src_dir = out_dir

RECURSIVE SimplifyMeshes(_, _, _, _)
\* lines 103-119
SimplifyMeshes(f, models, i, out_mesh_dir) ==
  IF i > Len(models) THEN [fs |-> f, eff |-> <<>>]
  ELSE LET model_in == read_triangle_mesh(
                         f, joinpath(mesh_dir.parts, <<models[i], ".ply">>))
           model_out_path == joinpath(out_mesh_dir, <<models[i], ".ply">>)
           r == SimplifyMeshes(write(f, model_out_path, model_in),
                               models, i + 1, out_mesh_dir)
       IN [fs |-> r.fs,
           eff |-> << [act |-> "write", path |-> model_out_path] >> \o r.eff]

\* lines 121-128
CopyScene(f, scene_in_name, out_dir) ==
  LET scene_in_path == joinpath(dataset_dir.parts, scene_in_name \o <<".xml">>)
      xml_out == joinpath(out_dir, PathName(scene_in_path))
      geo_in == with_suffix(scene_in_path, <<".geojson">>)
      geo_out == joinpath(out_dir, PathName(geo_in))
  IN IF ~ is_file(f, scene_in_path)
     THEN [fs |-> f, eff |-> <<>>, error |-> "FileNotFoundError"]
     ELSE LET f1 == write(f, xml_out, f[resolve(f, scene_in_path)].data)
          IN IF ~ is_file(f1, geo_in)
             THEN [fs |-> f1, eff |-> << [act |-> "write", path |-> xml_out] >>,
                   error |-> "FileNotFoundError"]
             ELSE [fs |-> write(f1, geo_out, f1[resolve(f1, geo_in)].data),
                   eff |-> << [act |-> "write", path |-> xml_out],
                              [act |-> "write", path |-> geo_out] >>,
                   error |-> "none"]

SimplifyOutcome(f, scene_in_name, out_dir) ==
  LET op == "generate_simplified_dataset"
      KeyMsg(k) == [dir |-> <<>>, names |-> <<>>, key |-> k]
  IN
  IF UnknownTile(scene_in_name, tile_names)
  THEN [fs |-> f,
        ret |-> Ret(op, "KeyError",
                    [dir |-> dataset_dir.parts, names |-> tile_names,
                     key |-> scene_in_name], <<>>)]
  ELSE IF scene_in_name \notin DOMAIN tiles_dict
  THEN [fs |-> f, ret |-> Ret(op, "KeyError", KeyMsg(scene_in_name), <<>>)]
  ELSE IF SameDir(dataset_dir, out_dir)
  THEN [fs |-> f, ret |-> Ret(op, "FileExistsError", NoMsg, <<>>)]
  ELSE IF out_dir.type # "Path"
  THEN \* line 95: str has no joinpath
       [fs |-> f, ret |-> Ret(op, "AttributeError", NoMsg, <<>>)]
  ELSE
    LET scene_in_dict == tiles_dict[scene_in_name]
        out_mesh_dir == joinpath(out_dir.parts, <<"meshes">>)
        made == IF is_dir(f, out_mesh_dir) THEN f
                ELSE mkdir(f, Absolute(out_mesh_dir))
        eff == IF is_dir(f, out_mesh_dir) THEN <<>>
               ELSE << [act |-> "mkdir", path |-> out_mesh_dir] >>
    IN IF "models" \notin DOMAIN scene_in_dict
       THEN \* line 103: the descriptor has no "models" key
            [fs |-> made, ret |-> Ret(op, "KeyError", KeyMsg(<<"models">>), eff)]
       ELSE LET m == SimplifyMeshes(made, scene_in_dict.models, 1, out_mesh_dir)
                c == CopyScene(m.fs, scene_in_name, out_dir.parts)
            IN [fs |-> c.fs,
                ret |-> Ret(op, c.error, NoMsg, eff \o m.eff \o c.eff)]

TileArgs == { <<"t1">>, <<"t3">>, <<"t9">> }
OutDirArgs ==
  { PyPath(DatasetPath), PyStr(DatasetPath),
    PyPath(<< <<"out">> >>), PyStr(<< <<"out">> >>) }

generate_simplified_dataset ==
  /\ obj = "ok"
  /\ \E scene_in_name \in TileArgs, out_dir \in OutDirArgs :
       LET r == SimplifyOutcome(fs, scene_in_name, out_dir)
       IN /\ fs' = r.fs
          /\ ret' = [r.ret EXCEPT !.args = <<scene_in_name, out_dir>>,
                                  !.pre = {fs}]
  /\ UNCHANGED <<obj, attrs, dataset_dir, mesh_dir, out_dataset_dir,
                 tiles_dict, tile_names, n_tiles>>

----------------------------------------------------------------------------
(* Scene assembler *)
Idx4 == (1..4) \X (1..4)

\* mi.ScalarTransform4f.translate
translate(v) ==
  [ij \in Idx4 |-> IF ij[1] = ij[2] THEN 1
                   ELSE IF ij[2] = 4 /\ ij[1] <= 3 THEN v[ij[1]] ELSE 0]

\* the @ of two 4x4 transforms
MatMul(A, B) ==
  [ij \in Idx4 |-> A[<<ij[1], 1>>] * B[<<1, ij[2]>>]
                   + A[<<ij[1], 2>>] * B[<<2, ij[2]>>]
                   + A[<<ij[1], 3>>] * B[<<3, ij[2]>>]
                   + A[<<ij[1], 4>>] * B[<<4, ij[2]>>]]

Diffuse(rgb) ==
  [type |-> "twosided",
   bsdf |-> [type |-> "diffuse",
             reflectance |-> [type |-> "rgb", value |-> rgb]]]

\* lines 140-176; a reflectance component is <<numerator, denominator>>
scene_dict_mi0 ==
  ("type" :> "scene")
  @@ ("integrator" :> [type |-> "path"])
  @@ ("light" :> [type |-> "constant"])
  @@ ("mat-itu_brick" :>
        Diffuse(<< <<401968, 1000000>>, <<111874, 1000000>>, <<86764, 1000000>> >>))
  @@ ("mat-itu_concrete" :>
        Diffuse(<< <<539479, 1000000>>, <<539479, 1000000>>, <<539480, 1000000>> >>))
  @@ ("mat-itu_medium_dry_ground" :>
        Diffuse(<< <<65, 255>>, <<60, 255>>, <<60, 255>> >>))

SetKey(d, k, v) == [x \in DOMAIN d \cup {k} |-> IF x = k THEN v ELSE d[x]]

\* utils.constants.LOCAL_CRS_ORIGIN_STATE
LOCAL_CRS_ORIGIN_STATE == <<100, 200>>

\* utils.geo_utils.gdf2localcrs: coordinates relative to the fixed origin
gdf2localcrs(gdf) ==
  [i \in DOMAIN gdf |->
     [gdf[i] EXCEPT !.geometry =
        << @[1] - LOCAL_CRS_ORIGIN_STATE[1], @[2] - LOCAL_CRS_ORIGIN_STATE[2],
           @[3] - LOCAL_CRS_ORIGIN_STATE[1], @[4] - LOCAL_CRS_ORIGIN_STATE[2] >>]]

Min(S) == CHOOSE x \in S : \A y \in S : x <= y
Max(S) == CHOOSE x \in S : \A y \in S : x >= y

\* GeoDataFrame.total_bounds of a non-empty frame: minx, miny, maxx, maxy
total_bounds(gdf) ==
  << Min({ gdf[i].geometry[1] : i \in DOMAIN gdf }),
     Min({ gdf[i].geometry[2] : i \in DOMAIN gdf }),
     Max({ gdf[i].geometry[3] : i \in DOMAIN gdf }),
     Max({ gdf[i].geometry[4] : i \in DOMAIN gdf }) >>

\* GeoSeries.centroid of an axis-parallel rectangle
centroid(g) == << (g[1] + g[3]) \div 2, (g[2] + g[4]) \div 2 >>

\* line 205
WithCenter(gdf) ==
  [i \in DOMAIN gdf |->
     [Model_ID |-> gdf[i].Model_ID, StructType |-> gdf[i].StructType,
      geometry |-> gdf[i].geometry, center |-> centroid(gdf[i].geometry)]]

\* utils.obj_utils.get_mi_dict: the mesh reference of one model
get_mi_dict(f, model_path, x, y, z, out_dir, material) ==
  IF ~ is_file(f, model_path)
  THEN [error |-> "FileNotFoundError", n_tri |-> 0,
        dict |-> [type |-> "ply", filename |-> model_path, bsdf |-> material,
                  to_world |-> translate(<<0, 0, 0>>)]]
  ELSE [error |-> "none", n_tri |-> f[resolve(f, model_path)].data.tri,
        dict |-> [type |-> "ply", filename |-> model_path, bsdf |-> material,
                  to_world |-> translate(<<x, y, z>>)]]

\* utils.obj_utils.create_ground: the scaled rectangle, written as the frame mesh
create_ground(f, material, x, y, z, scale, base_rect_path, out_path, out_dir) ==
  IF ~ is_file(f, base_rect_path)
  THEN [error |-> "FileNotFoundError", fs |-> f,
        dict |-> [type |-> "ply", filename |-> out_path, bsdf |-> material,
                  to_world |-> translate(<<x, y, z>>), scale |-> scale]]
  ELSE LET g == write(f, out_path,
                      [f[resolve(f, base_rect_path)].data EXCEPT !.text = "frame"])
       IN [error |-> "none", fs |-> g,
           dict |-> [type |-> "ply", filename |-> out_path, bsdf |-> material,
                     to_world |-> translate(<<x, y, z>>), scale |-> scale]]

\* variant: the two materials are swapped
MaterialOf_m(model_struct_type) ==
  IF model_struct_type = "Wall" THEN "mat-itu_concrete" ELSE "mat-itu_brick"

\* lines 214-218
MaterialOf(model_struct_type) ==
  IF model_struct_type = "Wall" THEN "mat-itu_brick" ELSE "mat-itu_concrete"

\* variant: the tile center is added instead of subtracted
TileToWorld_m(to_world, scene_center) ==
  MatMul(to_world, translate(<< scene_center[1], scene_center[2], 0 >>))

\* lines 228-230
TileToWorld(to_world, scene_center) ==
  MatMul(to_world, translate(<< 0 - scene_center[1], 0 - scene_center[2], 0 >>))

RECURSIVE PlaceModels_m(_, _, _, _, _, _)
\* variant: a model whose mesh is missing is skipped
PlaceModels_m(f, gdf, i, scene_center, scene, n_tri_list) ==
  IF i > Len(gdf)
  THEN [error |-> "none", scene |-> scene, n_tri_list |-> n_tri_list]
  ELSE LET model_name == gdf[i].Model_ID
           model_mesh_path ==
             with_suffix(joinpath(mesh_dir.parts, <<model_name>>), <<".ply">>)
           m == get_mi_dict(f, model_mesh_path, gdf[i].center[1],
                            gdf[i].center[2], 0, dataset_dir.parts,
                            IF gdf[i].StructType = "Wall" THEN "mat-itu_brick"
                            ELSE "mat-itu_concrete")
           tile_model_dict ==
             [m.dict EXCEPT !.to_world =
                MatMul(@, translate(<< 0 - scene_center[1],
                                       0 - scene_center[2], 0 >>))]
       IN IF m.error # "none"
          THEN PlaceModels_m(f, gdf, i + 1, scene_center, scene, n_tri_list)
          ELSE PlaceModels_m(f, gdf, i + 1, scene_center,
                             SetKey(scene, model_name, tile_model_dict),
                             Append(n_tri_list, m.n_tri))

RECURSIVE PlaceModels(_, _, _, _, _, _)
\* lines 209-235: the loop over the rows, from row i on
PlaceModels(f, gdf, i, scene_center, scene, n_tri_list) ==
  IF i > Len(gdf)
  THEN [error |-> "none", scene |-> scene, n_tri_list |-> n_tri_list]
  ELSE LET model_name == gdf[i].Model_ID
           model_mesh_path ==
             with_suffix(joinpath(mesh_dir.parts, <<model_name>>), <<".ply">>)
           model_material == MaterialOf(gdf[i].StructType)
           m == get_mi_dict(f, model_mesh_path, gdf[i].center[1],
                            gdf[i].center[2], 0, dataset_dir.parts,
                            model_material)
           tile_model_dict ==
             [m.dict EXCEPT !.to_world = TileToWorld(@, scene_center)]
       IN IF m.error # "none"
          THEN [error |-> m.error, scene |-> scene, n_tri_list |-> n_tri_list]
          ELSE PlaceModels(f, gdf, i + 1, scene_center,
                           SetKey(scene, model_name, tile_model_dict),
                           Append(n_tri_list, m.n_tri))

RECURSIVE sum(_)
sum(list) == IF list = <<>> THEN 0 ELSE list[1] + sum(Tail(list))

\* lines 239-253: the three artifacts of the tile, in the order written
WriteTile(f, out_dir, scene_name, gdf, scene_center, tile_n_tri) ==
  LET output_tile_scene_path == joinpath(out_dir, scene_name \o <<".xml">>)
      geo_path == with_suffix(output_tile_scene_path, <<".geojson">>)
      output_tile_info_path ==
        joinpath(out_dir, scene_name \o <<"_tileinfo", ".geojson">>)
      f1 == write(f, output_tile_scene_path, Text("scene"))
      f2 == write(f1, geo_path, Text("features"))
      f3 == write(f2, output_tile_info_path,
                  [text |-> "tileinfo", tri |-> tile_n_tri, enc |-> "text"])
  IN [fs |-> f3,
      eff |-> << [act |-> "write", path |-> output_tile_scene_path],
                 [act |-> "write", path |-> geo_path],
                 [act |-> "write", path |-> output_tile_info_path] >>]

AssembleOutcome(f, gdf_in, scene_center, scene_name) ==
  LET op == "generate_scene_from_model_gdf"
      meshes_path == mesh_dir.parts
      model_gdf == gdf2localcrs(gdf_in)
      scene_bounds == total_bounds(model_gdf)
      scene_size == scene_bounds[3] - scene_bounds[1]
      frame_name == scene_name \o <<"_Frame">>
      frame_path == joinpath(meshes_path, frame_name \o <<".ply">>)
      g == create_ground(f, "mat-itu_medium_dry_ground", 0, 0, 0,
                         scene_size \div 2 + 100,
                         joinpath(meshes_path, <<"rectangle", ".ply">>),
                         frame_path, dataset_dir.parts)
      eff0 == << [act |-> "write", path |-> frame_path] >>
      scene0 == SetKey(scene_dict_mi0, "ground", g.dict)
      gdf == WithCenter(model_gdf)
      placed == PlaceModels(g.fs, gdf, 1, scene_center, scene0, <<>>)
      tile_n_tri == sum(placed.n_tri_list)
      Out(fsys, err, eff, scene, n) ==
        [fs |-> fsys,
         ret |-> [Ret(op, err, NoMsg, eff) EXCEPT !.scene = scene, !.n_tri = n]]
  IN
  IF g.error # "none"
  THEN Out(f, g.error, <<>>, scene_dict_mi0, 0)
  ELSE IF placed.error # "none"
  THEN Out(g.fs, placed.error, eff0, placed.scene, 0)
  ELSE IF "out_dataset_dir" \notin attrs
  THEN \* line 239: the attribute is never set
       Out(g.fs, "AttributeError", eff0, placed.scene, tile_n_tri)
  ELSE LET w == WriteTile(g.fs, out_dataset_dir.parts, scene_name, gdf,
                          scene_center, tile_n_tri)
       IN Out(w.fs, "none", eff0 \o w.eff, placed.scene, tile_n_tri)

FeaturePool ==
  { [Model_ID |-> "m1", StructType |-> "Wall", geometry |-> <<100, 200, 104, 206>>],
    [Model_ID |-> "m2", StructType |-> "Building",
     geometry |-> <<110, 210, 120, 220>>],
    [Model_ID |-> "m1", StructType |-> "Building", geometry |-> <<90, 190, 94, 194>>],
    [Model_ID |-> "m3", StructType |-> "Wall", geometry |-> <<96, 204, 100, 208>>],
    [Model_ID |-> "ground", StructType |-> "wall",
     geometry |-> <<104, 196, 108, 198>>] }

ModelGdfs ==
  UNION { [1..n -> FeaturePool] : n \in 1..MaxFeatures }

SceneNames == { <<"t9">> }
SceneCenters == { <<0, 0>>, <<6, -4>> }

Assemble(gdfs) ==
  /\ obj = "ok"
  /\ \E model_gdf \in gdfs, scene_center \in SceneCenters,
        scene_name \in SceneNames :
       LET r == AssembleOutcome(fs, model_gdf, scene_center, scene_name)
       IN /\ fs' = r.fs
          /\ ret' = [r.ret EXCEPT !.args = <<model_gdf, scene_center, scene_name>>,
                                  !.pre = {fs}]
  /\ UNCHANGED <<obj, attrs, dataset_dir, mesh_dir, out_dataset_dir,
                 tiles_dict, tile_names, n_tiles>>

generate_scene_from_model_gdf == Assemble(ModelGdfs)

\* the same call on the tables of one row
AssembleOne == Assemble([1..1 -> FeaturePool])

----------------------------------------------------------------------------
(* Properties *)
PreFs == CHOOSE f \in ret.pre : TRUE
Assembled == ret.op = "generate_scene_from_model_gdf"
Simplified == ret.op = "generate_simplified_dataset"
Constructed == ret.op = "init"
InGdf == ret.args[1]
InCenter == ret.args[2]
InSceneName == ret.args[3]
MeshPresent(i) ==
  joinpath(MeshesAbs, <<InGdf[i].Model_ID, ".ply">>) \in DOMAIN PreFs
AllMeshesPresent == \A i \in DOMAIN InGdf : MeshPresent(i)
InMeshDir(e) == e.act = "write" /\ e.path[Len(e.path) - 1] = <<"meshes">>
OutsideMeshDir(e) == e.act = "write" /\ e.path[Len(e.path) - 1] # <<"meshes">>
\* names of the files written outside the mesh directory, in the order written
TileWrites ==
  LET w == SelectSeq(ret.effects, OutsideMeshDir)
  IN [i \in DOMAIN w |-> PathName(w[i].path)]
MeshWrites == SelectSeq(ret.effects, InMeshDir)
ArtifactNames ==
  << InSceneName \o <<".xml">>, InSceneName \o <<".geojson">>,
     InSceneName \o <<"_tileinfo", ".geojson">> >>

\* C1: whenever every model mesh is present, generate_scene_from_model_gdf
\* ends without error having written <tile>.xml, <tile>.geojson and
\* <tile>_tileinfo.geojson, in this order.
C1_AssembleWritesArtifacts ==
  (Assembled /\ AllMeshesPresent) =>
    (ret.error = "none" /\ TileWrites = ArtifactNames)

FixedKeys == {"type", "integrator", "light", "mat-itu_brick",
              "mat-itu_concrete", "mat-itu_medium_dry_ground", "ground"}
Materials == {"mat-itu_brick", "mat-itu_concrete", "mat-itu_medium_dry_ground"}
LoopDone == Assembled /\ ret.error # "FileNotFoundError"
ModelKeys == DOMAIN ret.scene \ FixedKeys
IsMaterial(k) == k \in DOMAIN ret.scene /\ ret.scene[k] = scene_dict_mi0[k]
IsGround(k) ==
  /\ k \in DOMAIN ret.scene
  /\ ret.scene[k].bsdf = "mat-itu_medium_dry_ground"
  /\ "scale" \in DOMAIN ret.scene[k]
TriOf(i) == PreFs[joinpath(MeshesAbs, <<InGdf[i].Model_ID, ".ply">>)].data.tri
RECURSIVE TriSum(_)
TriSum(i) == IF i = 0 THEN 0 ELSE TriOf(i) + TriSum(i - 1)
WantBsdf(i) ==
  IF InGdf[i].StructType = "Wall" THEN "mat-itu_brick" ELSE "mat-itu_concrete"
IsLast(i) == \A j \in DOMAIN InGdf : j > i => InGdf[j].Model_ID # InGdf[i].Model_ID
Ids == { InGdf[i].Model_ID : i \in DOMAIN InGdf }

\* C2 as stated: 3 materials, 1 ground entry, one model entry per input
\* feature keyed by its model_id with brick iff struct_type = "Wall", and
\* triangle_count = the sum of the features' mesh triangle counts.
C2_OneEntryPerFeature ==
  LoopDone =>
    /\ \A k \in Materials : IsMaterial(k)
    /\ IsGround("ground")
    /\ Cardinality(ModelKeys) = Len(InGdf)
    /\ \A i \in DOMAIN InGdf :
         /\ InGdf[i].Model_ID \in ModelKeys
         /\ ret.scene[InGdf[i].Model_ID].bsdf = WantBsdf(i)
    /\ ret.n_tri = TriSum(Len(InGdf))

\* C2 amended: one model entry per distinct model_id, holding the material of
\* the last feature with that id (brick iff its struct_type = "Wall"); when no
\* model_id is a fixed key of the scene description, the 3 materials and the
\* 1 ground entry are intact; triangle_count sums over every feature.
C2_OneEntryPerModelId ==
  LoopDone =>
    /\ DOMAIN ret.scene = FixedKeys \cup Ids
    /\ \A i \in DOMAIN InGdf :
         IsLast(i) => ret.scene[InGdf[i].Model_ID].bsdf = WantBsdf(i)
    /\ (Ids \cap FixedKeys = {}) =>
         /\ \A k \in Materials : IsMaterial(k)
         /\ IsGround("ground")
         /\ Cardinality(ModelKeys) = Cardinality(Ids)
    /\ ret.n_tri = TriSum(Len(InGdf))

C2_Witness ==
  /\ LoopDone
  /\ Len(InGdf) = 2
  /\ InGdf[1].StructType = "Wall" /\ InGdf[1].Model_ID = "m1"
  /\ InGdf[2].StructType # "Wall" /\ InGdf[2].Model_ID = "m2"
  /\ InCenter = <<0, 0>>
  /\ ret.n_tri = 30
  /\ Cardinality(ModelKeys) = 2

\* the rows the loop has placed when the call ends
NPlaced ==
  IF AllMeshesPresent THEN Len(InGdf)
  ELSE (CHOOSE i \in DOMAIN InGdf :
          ~ MeshPresent(i) /\ \A j \in 1..(i - 1) : MeshPresent(j)) - 1
LocalCentroid(i) ==
  << (InGdf[i].geometry[1] + InGdf[i].geometry[3]) \div 2 - 100,
     (InGdf[i].geometry[2] + InGdf[i].geometry[4]) \div 2 - 200 >>
IsTranslation(T, v) ==
  \A r, c \in 1..4 :
    T[<<r, c>>] = IF r = c THEN 1 ELSE IF c = 4 THEN v[r] ELSE 0

DatasetAbs == cwd \o DatasetPath
EntryNames(f) ==
  { PathName(q) : q \in { r \in DOMAIN f : /\ Len(r) = Len(DatasetAbs) + 1
                                           /\ SubSeq(r, 1, Len(DatasetAbs)) = DatasetAbs } }
Node(f, n) == f[joinpath(DatasetAbs, n)]
IsLink(f, n) == Node(f, n).kind = "link"
\* a regular file, or a symbolic link to one
RegularFile(f, n) ==
  \/ Node(f, n).kind = "file"
  \/ IsLink(f, n) /\ Node(f, n).target \in DOMAIN f
       /\ f[Node(f, n).target].kind = "file"
GeoJson(n) == Len(n) > 1 /\ n[Len(n)] = ".geojson"
NoSuffix(n) == SubSeq(n, 1, Len(n) - 1)
TileFiles(f) ==
  { n \in EntryNames(f) :
      /\ RegularFile(f, n)
      /\ GeoJson(n)
      /\ \A i \in 1..(Len(n) - 1) : n[i] # "_tileinfo" }
Built == Constructed /\ obj = "ok"
KeysAreTileStems == DOMAIN tiles_dict = { NoSuffix(n) : n \in TileFiles(fs) }
BesideTileFile(k) ==
  /\ tiles_dict[k].mi_scene_path = joinpath(DatasetAbs, k \o <<".xml">>)
  /\ tiles_dict[k].tileinfo_path =
       joinpath(DatasetAbs, k \o <<"_tileinfo", ".geojson">>)
BesideLinkTarget(k) ==
  LET t == Node(fs, k \o <<".geojson">>).target
      d == SubSeq(t, 1, Len(t) - 1)
  IN /\ tiles_dict[k].mi_scene_path = joinpath(d, NoSuffix(PathName(t)) \o <<".xml">>)
     /\ tiles_dict[k].tileinfo_path =
          joinpath(d, k \o <<"_tileinfo", ".geojson">>)

\* C4 as stated: the keys are the stems of the regular .geojson files without
\* "tileinfo"; each descriptor holds the original file, <stem>.xml and
\* <stem>_tileinfo.geojson; n_tiles is the size of the mapping.
C4_CatalogBesideTiles ==
  Built =>
    /\ KeysAreTileStems
    /\ \A k \in DOMAIN tiles_dict :
         /\ tiles_dict[k].geo_scene_path = joinpath(DatasetPath, k \o <<".geojson">>)
         /\ BesideTileFile(k)
    /\ n_tiles = Cardinality(DOMAIN tiles_dict)

\* C4 amended: as stated for an entry that is not a symbolic link; for a
\* symbolic link to a regular file the scene path is <target stem>.xml and the
\* metadata path <stem>_tileinfo.geojson, both in the target's directory.
C4_CatalogFollowsLinks ==
  Built =>
    /\ KeysAreTileStems
    /\ \A k \in DOMAIN tiles_dict :
         /\ tiles_dict[k].geo_scene_path = joinpath(DatasetPath, k \o <<".geojson">>)
         /\ IF IsLink(fs, k \o <<".geojson">>)
            THEN BesideLinkTarget(k) ELSE BesideTileFile(k)
    /\ n_tiles = Cardinality(DOMAIN tiles_dict)

C4_Witness ==
  /\ Built
  /\ EntryNames(fs) = DOMAIN DatasetEntries \cup {<<"meshes">>}
  /\ DOMAIN tiles_dict = {<<"t1">>, <<"t2">>, <<"t3">>}
  /\ n_tiles = 3

InTile == ret.args[1]
InOutDir == ret.args[2]
Known(t) == \E i \in DOMAIN tile_names : tile_names[i] = t
Untouched == ret.effects = <<>> /\ fs = PreFs

\* C5 as stated: out_dir equal to the dataset directory always fails with
\* FileExistsError before anything is created, whatever the tile name.
C5_SameDirAlwaysRejected ==
  (Simplified /\ InOutDir = dataset_dir) =>
    (ret.error = "FileExistsError" /\ Untouched)

\* C5 amended: for a tile name known to the catalog, out_dir equal to the
\* dataset directory fails with FileExistsError before anything is created.
C5_SameDirRejectedForKnownTile ==
  (Simplified /\ InOutDir = dataset_dir /\ Known(InTile)) =>
    (ret.error = "FileExistsError" /\ Untouched)

C5_Witness ==
  /\ Simplified
  /\ InOutDir = dataset_dir
  /\ InTile = <<"t1">> /\ Known(InTile)
  /\ ret.error = "FileExistsError"

OutAbs == Absolute(InOutDir.parts)
SameContent(src, dst) ==
  /\ dst \in DOMAIN fs
  /\ fs[dst].kind = "file"
  /\ fs[dst].data = PreFs[src].data

\* C6: for a known tile and another out_dir the call completes, having written
\* the simplified meshes and then copied <tile>.xml and <tile>.geojson with
\* identical contents, the source dataset directory left unchanged.
C6_SimplifyCopiesScene ==
  (Simplified /\ Known(InTile) /\ InOutDir.type = "Path"
     /\ InOutDir # dataset_dir
     /\ joinpath(DatasetAbs, InTile \o <<".xml">>) \in DOMAIN PreFs) =>
    /\ ret.error = "none"
    /\ TileWrites = << InTile \o <<".xml">>, InTile \o <<".geojson">> >>
    /\ SameContent(joinpath(DatasetAbs, InTile \o <<".xml">>),
                   joinpath(OutAbs, InTile \o <<".xml">>))
    /\ SameContent(joinpath(DatasetAbs, InTile \o <<".geojson">>),
                   joinpath(OutAbs, InTile \o <<".geojson">>))
    /\ \A q \in DOMAIN PreFs :
         SubSeq(q, 1, Len(DatasetAbs)) = DatasetAbs => fs[q] = PreFs[q]

InDirArg == ret.args[1]
BadDir ==
  \/ Absolute(InDirArg.parts) \notin DOMAIN PreFs
  \/ PreFs[Absolute(InDirArg.parts)].kind # "dir"

\* C8: constructing the catalog on a missing directory or a non-directory
\* fails with NotFound, for a Path and for a string, before tiles_dict,
\* tile_names or n_tiles is set.
C8_BadDirIsNotFound ==
  (Constructed /\ BadDir) =>
    /\ ret.error \in {"FileNotFoundError", "NotADirectoryError"}
    /\ attrs \cap {"tiles_dict", "tile_names", "n_tiles"} = {}

\* C9: a tile name that is not in the catalog fails with KeyError naming the
\* valid tile names, before any directory or file is created or modified.
C9_UnknownTileRejected ==
  (Simplified /\ ~ Known(InTile)) =>
    /\ ret.error = "KeyError"
    /\ ret.msg.names = tile_names
    /\ ret.msg.key = InTile
    /\ Untouched

C9_Witness ==
  /\ Simplified
  /\ InTile = <<"t9">>
  /\ tile_names # <<>>
  /\ InOutDir = PyPath(<< <<"out">> >>)
  /\ ret.error = "KeyError"

CatalogConsistent ==
  /\ { tile_names[i] : i \in DOMAIN tile_names } = DOMAIN tiles_dict
  /\ Len(tile_names) = Cardinality(DOMAIN tiles_dict)
  /\ n_tiles = Cardinality(DOMAIN tiles_dict)
FrameOf(t) == joinpath(MeshesAbs, t \o <<"_Frame", ".ply">>)
\* the tile of the last call has been assembled on this instance
AssembledBefore == Simplified /\ FrameOf(InTile) \in DOMAIN fs

----------------------------------------------------------------------------
OneTile == {<<"t1", ".geojson">>, <<"t1", ".xml">>,
            <<"t1", "_tileinfo", ".geojson">>}

FsChoices == { FsWith(OneTile), FsWith(OneTile \cup {<<"t3", ".geojson">>}) }

InitObj ==
  /\ obj = "none"
  /\ attrs = {}
  /\ dataset_dir = PyPath(<<>>)
  /\ mesh_dir = PyPath(<<>>)
  /\ out_dataset_dir = PyPath(<<>>)
  /\ tiles_dict = [k \in {} |-> 0]
  /\ tile_names = <<>>
  /\ n_tiles = 0
  /\ ret = Ret("none", "none", NoMsg, <<>>)

Init == fs \in FsChoices /\ InitObj

Next ==
  \/ Construct
  \/ convert_to_ascii
  \/ generate_simplified_dataset
  \/ AssembleOne

Spec == Init /\ [][Next]_vars

\* the assembler on the tables of up to MaxFeatures rows
InitAssemble == fs = FsWith(OneTile) /\ InitObj

NextAssemble == Construct \/ generate_scene_from_model_gdf

SpecAssemble == InitAssemble /\ [][NextAssemble]_vars

\* the catalog alone, over every content of the dataset directory
InitCatalog ==
  /\ fs \in { FsWith(S) : S \in SUBSET DOMAIN DatasetEntries }
  /\ InitObj

NextCatalog == Construct

SpecCatalog == InitCatalog /\ [][NextCatalog]_vars
====
